---- MODULE Spec2Model ----
(***************************************************************************)
(* Geo-Cam: camera preview with a GPS / clock overlay and photo capture.   *)
(* The module models the page script (the build with the landscape panel)  *)
(* as a state machine over the browser's event loop: every action is one   *)
(* task of the loop (a click handler, the settlement of a getUserMedia     *)
(* promise with the continuations it resumes, a geolocation callback, a    *)
(* timer callback, the toBlob callback) or one event of the environment.   *)
(***************************************************************************)
EXTENDS Integers, Sequences, FiniteSets, TLC

\* ------------------------------------------------------------------ bounds

\* user and environment events in one run: clicks on retry, toggle and capture,
\* refused camera requests, frame-size changes, geolocation callbacks and
\* seconds of wall-clock time
MaxEvents == 3

\* ------------------------------------------------------------------ values

\* JavaScript null; a non-null number, id or handle v is the one-element <<v>>
Null == <<>>

\* a decimal number m * 10^-e
Num(m, e) == [m |-> m, e |-> e]

\* reasons a getUserMedia promise rejects with
CaptureErrors == {"permission-denied", "not-found", "not-readable", "overconstrained"}

\* GeolocationPositionError codes: PERMISSION_DENIED, POSITION_UNAVAILABLE, TIMEOUT
LocationErrorCodes == {1, 2, 3}

\* native frame sizes a camera delivers: landscape 16:9, portrait, square and
\* a wide landscape (19.5:9)
FrameSizes == {<<1920, 1080>>, <<1080, 1920>>, <<1000, 1000>>, <<2336, 1080>>}

\* positions the location capability delivers (coords.latitude, .longitude,
\* .altitude, .accuracy); none lies on a rounding tie of its display precision
Fixes ==
    { [latitude |-> Num(374229990, 7), longitude |-> Num(-1220840570, 7),
       altitude |-> <<Num(123456, 3)>>, accuracy |-> <<Num(5200, 3)>>],
      [latitude |-> Num(374229996, 7), longitude |-> Num(-4, 7),
       altitude |-> Null, accuracy |-> <<Num(12340, 3)>>],
      [latitude |-> Num(-339999994, 7), longitude |-> Num(1512000001, 7),
       altitude |-> <<Num(-4960, 3)>>, accuracy |-> Null],
      [latitude |-> Num(0, 7), longitude |-> Num(1800000000, 7),
       altitude |-> Null, accuracy |-> Null] }

\* ------------------------------------------------------------------ state

VARIABLES
    stream,         \* let stream: Null or <<i>>, the stream request i obtained
    facingMode,     \* let facingMode
    watchId,        \* let watchId: Null or <<id>>
    srcObject,      \* video.srcObject: Null or <<i>>
    videoSize,      \* <<video.videoWidth, video.videoHeight>>
    resizes,        \* number of frame-size changes of the video so far
    promptDisplay,  \* permissionMessage.style.display
    coordinates,    \* coordinatesEl.textContent
    altitude,       \* altitudeEl.textContent
    accuracy,       \* accuracyEl.textContent
    datetime,       \* datetimeEl.textContent
    requests,       \* the getUserMedia calls made so far, in call order
    ended,          \* streams whose tracks have been stopped
    geolocation,    \* whether navigator.geolocation exists
    watches,        \* ids of the active watchPosition subscriptions
    delivered,      \* number of geolocation callbacks delivered so far
    lastCallback,   \* the last geolocation callback delivered, Null before it
    erred,          \* subscriptions that have delivered an error
    timers,         \* number of active setInterval(updateClock) timers
    now,            \* wall clock, in seconds since the page was loaded
    captures,       \* the capturePhoto calls made so far, in call order
    objectURLs      \* object URLs created and not revoked

vars == <<stream, facingMode, watchId, srcObject, videoSize, resizes, promptDisplay,
          coordinates, altitude, accuracy, datetime, requests, ended,
          geolocation, watches, delivered, lastCallback, erred,
          timers, now, captures, objectURLs>>

cameraVars == <<stream, facingMode, srcObject, videoSize, resizes, promptDisplay,
                requests, ended>>
locationVars == <<watchId, watches, delivered, lastCallback, erred,
                  coordinates, altitude, accuracy>>
clockVars == <<timers, datetime>>

RejectedRequests == {i \in DOMAIN requests : requests[i].state = "rejected"}

\* events so far; the request init() makes at load is not one of them
Events ==
    (Len(requests) - 1) + Cardinality(RejectedRequests) + resizes + delivered + now
        + Len(captures)

\* ------------------------------------------------------------------ formatting

RECURSIVE Pow10(_)
Pow10(k) == IF k = 0 THEN 1 ELSE 10 * Pow10(k - 1)

\* the last k decimal digits of n, zero-padded
RECURSIVE Digits(_, _)
Digits(n, k) == IF k = 0 THEN "" ELSE Digits(n \div 10, k - 1) \o ToString(n % 10)

\* Number.prototype.toFixed(digits): the sign is taken off first, the magnitude
\* is rounded to the nearest multiple of 10^-digits, and the sign is put back
\* (also in front of a magnitude that rounds to zero)
toFixed(x, digits) ==
    LET mag == IF x.m < 0 THEN -x.m ELSE x.m
        q == Pow10(x.e - digits)
        n == (mag + q \div 2) \div q
    IN (IF x.m < 0 THEN "-" ELSE "")
         \o ToString(n \div Pow10(digits)) \o "." \o Digits(n % Pow10(digits), digits)

TwoDigit(n) == Digits(n, 2)

\* second of the day at which the page was loaded: 09:59:59
LoadTime == 9 * 3600 + 59 * 60 + 59

\* toLocaleDateString('en-US', dateOptions) + ' ' + toLocaleTimeString('en-US', timeOptions)
FormatClock(t) ==
    LET s == LoadTime + t
    IN "Jan 1, 2024 " \o TwoDigit(s \div 3600) \o ":" \o TwoDigit((s \div 60) % 60)
         \o ":" \o TwoDigit(s % 60)

\* Date.now(), in decimal digits (the page is loaded on a whole second)
EpochMillis(t) == ToString(1704103200 + LoadTime + t) \o "000"

\* ------------------------------------------------------------------ camera

showPermissionMessageHidden == "none"
showPermissionMessage == "flex"

\* a getUserMedia call; prompt is what permissionMessage.style.display is when
\* the call is made
NewRequest(caller, facing) ==
    [caller |-> caller, facing |-> facing, prompt |-> promptDisplay,
     state |-> "pending", cause |-> "none", thrown |-> "none", handled |-> FALSE]

\* stream.getTracks().forEach(track => track.stop())
StopTracksSkipped(s, e) == e
StopTracks(s, e) == IF s # Null THEN e \cup {s[1]} ELSE e

\* startCamera up to its await: stop the held stream, call getUserMedia
StartCameraBegin(caller, facing) ==
    /\ ended' = StopTracks(stream, ended)
    /\ requests' = Append(requests, NewRequest(caller, facing))

\* the catch block of startCamera: show the prompt, rethrow
StartCameraCatchSwallows(error) == [prompt |-> showPermissionMessage, thrown |-> "none"]
StartCameraCatch(error) == [prompt |-> showPermissionMessage, thrown |-> error]

\* the catch block of init
InitCatch(error) == showPermissionMessage

\* ------------------------------------------------------------------ location

NoGuardStartLocationTracking ==
    /\ watches' = watches \cup {Cardinality(watches) + 1}
    /\ watchId' = <<Cardinality(watches) + 1>>
    /\ UNCHANGED coordinates
startLocationTracking ==
    IF ~geolocation
    THEN /\ coordinates' = "Geolocation not supported"
         /\ UNCHANGED <<watchId, watches>>
    ELSE /\ watches' = watches \cup {Cardinality(watches) + 1}
         /\ watchId' = <<Cardinality(watches) + 1>>
         /\ UNCHANGED coordinates

\* the text updatePosition puts in front of the accuracy: the template literal
\* of this build reads "Â±" (U+00C2 U+00B1) where the portrait-only build of
\* the script reads "±" (U+00B1). Characters outside ASCII are written in the
\* strings of the model by their code points.
PlusMinus == "{U+00C2}{U+00B1}"

updatePositionBlocking(position) ==
    IF position.coords.altitude = Null \/ position.coords.accuracy = Null
    THEN UNCHANGED <<coordinates, altitude, accuracy>>
    ELSE /\ coordinates' = toFixed(position.coords.latitude, 6) \o ", "
                             \o toFixed(position.coords.longitude, 6)
         /\ altitude' = toFixed(position.coords.altitude[1], 1) \o " m"
         /\ accuracy' = PlusMinus \o toFixed(position.coords.accuracy[1], 1) \o " m"
updatePosition(position) ==
    LET lat == toFixed(position.coords.latitude, 6)
        lon == toFixed(position.coords.longitude, 6)
    IN /\ coordinates' = lat \o ", " \o lon
       /\ altitude' = IF position.coords.altitude # Null
                      THEN toFixed(position.coords.altitude[1], 1) \o " m"
                      ELSE "N/A"
       /\ accuracy' = IF position.coords.accuracy # Null
                      THEN PlusMinus \o toFixed(position.coords.accuracy[1], 1) \o " m"
                      ELSE "N/A"

handleLocationErrorCancels(error) ==
    /\ coordinates' = "Location unavailable"
    /\ watches' = watches \ {IF watchId = Null THEN 0 ELSE watchId[1]}
    /\ UNCHANGED <<altitude, accuracy, watchId>>
handleLocationErrorClears(error) ==
    /\ coordinates' = "Location unavailable"
    /\ altitude' = "N/A"
    /\ accuracy' = "N/A"
    /\ UNCHANGED <<watchId, watches>>
handleLocationError(error) ==
    /\ coordinates' = "Location unavailable"
    /\ UNCHANGED <<altitude, accuracy, watchId, watches>>

\* ------------------------------------------------------------------ clock

updateClock == datetime' = FormatClock(now)

startClock ==
    /\ updateClock
    /\ timers' = timers + 1

\* ------------------------------------------------------------------ capture

\* the four values capturePhoto writes into the raster
OverlayTextResampled == <<coordinates, altitude, accuracy, FormatClock(now)>>
OverlayText == <<coordinates, altitude, accuracy, datetime>>

\* Lengths on the canvas are in hundredths of a pixel: every factor of the
\* layout (0.8, 1.2, 1.4 * 0.8, ...) times an integer font size is a whole
\* number of hundredths.
Px(n) == 100 * n

\* const isLandscape = canvas.width > canvas.height
isLandscapeOrSquare(width, height) == width >= height
isLandscape(width, height) == width > height

\* Math.floor(canvas.width / 30)
baseFontSize(width) == width \div 30

\* Math.floor(canvas.width * 0.30), in pixels (the double product of an integer
\* below 2^31 and 0.30 has the same floor as the exact 3 * width / 10)
overlayWidthCeil(width) == (3 * width + 9) \div 10
overlayWidth(width) == (3 * width) \div 10

FillRect(x, y, w, h) == [op |-> "fillRect", x |-> x, y |-> y, w |-> w, h |-> h]
StrokeRect(x, y, w, h) == [op |-> "strokeRect", x |-> x, y |-> y, w |-> w, h |-> h]
FillText(text, x, y, align) ==
    [op |-> "fillText", text |-> text, x |-> x, y |-> y, align |-> align]
Line(x1, y1, x2, y2) == [op |-> "line", x |-> x1, y |-> y1, w |-> x2 - x1, h |-> y2 - y1]

\* the landscape branch: the panel at the bottom right, its gradient, the
\* header and the four rows of drawInfoRow
LandscapeOps(width, height, text) ==
    LET b == baseFontSize(width)
        ow == Px(overlayWidth(width))
        padding == 120 * b
        itemSpacing == 250 * b
        headerFontSize == 140 * b
        labelFontSize == 90 * b
        valueFontSize == 90 * b
        oh == padding * 2 + headerFontSize + itemSpacing * 4
        overlayX == Px(width) - ow - padding
        overlayY == Px(height) - oh - padding
        headerY == overlayY + (padding * 12) \div 10
        rowY == headerY + headerFontSize + (padding * 13) \div 10
        rowPadding == (padding * 8) \div 10
        labelX == overlayX + rowPadding
        valueX == overlayX + ow - rowPadding
        drawInfoRow(label, value, yPos) ==
            << Line(overlayX + rowPadding, yPos, overlayX + ow - rowPadding, yPos),
               FillText(label, labelX, yPos + (labelFontSize * 14) \div 10, "left"),
               FillText(value, valueX, yPos + (valueFontSize * 14) \div 10, "right") >>
    IN << FillRect(overlayX, overlayY, ow, oh),
          StrokeRect(overlayX, overlayY, ow, oh),
          FillRect(Px(width) - ow - padding * 3, overlayY - padding,
                   ow + padding * 3, oh + padding * 2),
          FillRect(overlayX, overlayY, ow, oh),
          StrokeRect(overlayX, overlayY, ow, oh),
          FillText("GPS Cam by solvepao research", overlayX + ow \div 2,
                   headerY + (headerFontSize * 8) \div 10, "center") >>
       \o drawInfoRow("Coordinates", text[1], rowY)
       \o drawInfoRow("Altitude", text[2], rowY + itemSpacing)
       \o drawInfoRow("Accuracy", text[3], rowY + 2 * itemSpacing)
       \o drawInfoRow("Date & Time", text[4], rowY + 3 * itemSpacing)

\* the portrait branch: the band at the top, the header and four lines
PortraitOpsWideRows(width, height, text) ==
    LET fontSize == width \div 25
        padding == 80 * fontSize
        y == 150 * fontSize
    IN << FillRect(0, 0, Px(width), Px(fontSize * 8)),
          FillText("GPS Cam by solvepao research", padding, y, "left"),
          FillText("Coordinates: " \o text[1], padding, y + 180 * fontSize, "left"),
          FillText("Altitude: " \o text[2], padding, y + 360 * fontSize, "left"),
          FillText("Accuracy: " \o text[3], padding, y + 540 * fontSize, "left"),
          FillText("Date & Time: " \o text[4], padding, y + 720 * fontSize, "left") >>
PortraitOps(width, height, text) ==
    LET fontSize == width \div 25
        padding == 80 * fontSize
        y == 150 * fontSize
    IN << FillRect(0, 0, Px(width), Px(fontSize * 8)),
          FillText("GPS Cam by solvepao research", padding, y, "left"),
          FillText("Coordinates: " \o text[1], padding, y + 180 * fontSize, "left"),
          FillText("Altitude: " \o text[2], padding, y + 300 * fontSize, "left"),
          FillText("Accuracy: " \o text[3], padding, y + 420 * fontSize, "left"),
          FillText("Date & Time: " \o text[4], padding, y + 540 * fontSize, "left") >>

\* canvas.toBlob: a canvas without pixels encodes to null
ToBlob(width, height) ==
    IF width = 0 \/ height = 0 THEN Null ELSE <<"image/jpeg">>

\* the body of the toBlob callback for capture k with a blob: create the object
\* URL, click the download link, revoke the URL
DownloadLeaks(k) ==
    [name |-> "solvepao_" \o EpochMillis(now) \o ".jpg", urls |-> objectURLs \cup {k}]
Download(k) ==
    [name |-> "solvepao_" \o EpochMillis(now) \o ".jpg",
     urls |-> (objectURLs \cup {k}) \ {k}]

\* ------------------------------------------------------------------ actions

\* stands for the text the page's markup puts in a display field; the script
\* never writes it
MarkupText == "(markup)"

\* the state when the script has run to its end: the globals as declared, the
\* markup's texts in the fields, and init() called, suspended in startCamera
Init ==
    /\ stream = Null
    /\ facingMode = "environment"
    /\ watchId = Null
    /\ srcObject = Null
    /\ videoSize = <<0, 0>>
    /\ resizes = 0
    /\ promptDisplay = "none"
    /\ coordinates = MarkupText
    /\ altitude = MarkupText
    /\ accuracy = MarkupText
    /\ datetime = MarkupText
    /\ requests = <<NewRequest("init", "environment")>>
    /\ ended = StopTracks(Null, {})
    /\ geolocation \in BOOLEAN
    /\ watches = {}
    /\ delivered = 0
    /\ lastCallback = Null
    /\ erred = {}
    /\ timers = 0
    /\ now = 0
    /\ captures = <<>>
    /\ objectURLs = {}

\* click on retryBtn: init() up to the await in startCamera
Retry ==
    /\ Events < MaxEvents
    /\ StartCameraBegin("init", facingMode)
    /\ UNCHANGED <<stream, facingMode, srcObject, videoSize, resizes, promptDisplay>>
    /\ UNCHANGED <<locationVars, clockVars, geolocation, now, captures, objectURLs>>

\* click on toggleBtn: toggleCamera() up to the await in startCamera
toggleCamera ==
    /\ Events < MaxEvents
    /\ facingMode' = IF facingMode = "environment" THEN "user" ELSE "environment"
    /\ StartCameraBegin("toggleCamera", facingMode')
    /\ UNCHANGED <<stream, srcObject, videoSize, resizes, promptDisplay>>
    /\ UNCHANGED <<locationVars, clockVars, geolocation, now, captures, objectURLs>>

\* the getUserMedia promise of request i fulfils: startCamera resumes and
\* returns; when init awaited it, init goes on to the location and the clock
Fulfilled(i) ==
    /\ requests[i].state = "pending"
    /\ stream' = <<i>>
    /\ srcObject' = <<i>>
    /\ videoSize' = <<0, 0>>
    /\ promptDisplay' = "none"
    /\ requests' = [requests EXCEPT ![i].state = "fulfilled"]
    /\ IF requests[i].caller = "init"
       THEN startLocationTracking /\ startClock
       ELSE UNCHANGED <<watchId, watches, coordinates, clockVars>>
    /\ UNCHANGED <<facingMode, resizes, ended, altitude, accuracy, delivered, lastCallback,
                   erred, geolocation, now, captures, objectURLs>>

\* the getUserMedia promise of request i rejects: the catch block of startCamera
\* runs; when init awaited it, its catch block runs after that
Rejected(i, error) ==
    LET c == StartCameraCatch(error)
        r == requests[i]
        caught == r.caller = "init" /\ c.thrown # "none"
        returned == r.caller = "init" /\ c.thrown = "none"
    IN /\ Events < MaxEvents
       /\ r.state = "pending"
       /\ promptDisplay' = IF caught THEN InitCatch(c.thrown) ELSE c.prompt
       /\ requests' = [requests EXCEPT ![i] =
              [r EXCEPT !.state = "rejected", !.cause = error,
                        !.thrown = c.thrown, !.handled = caught]]
       /\ IF returned
          THEN startLocationTracking /\ startClock
          ELSE UNCHANGED <<watchId, watches, coordinates, clockVars>>
       /\ UNCHANGED <<stream, facingMode, srcObject, videoSize, resizes, ended, altitude,
                      accuracy, delivered, lastCallback, erred, geolocation, now,
                      captures, objectURLs>>

\* the video element learns the frame size of the attached stream
\* (loadedmetadata), or the size changes (resize, on device rotation)
VideoResize(size) ==
    /\ Events < MaxEvents
    /\ srcObject # Null
    /\ srcObject[1] \notin ended
    /\ size # videoSize
    /\ videoSize' = size
    /\ resizes' = resizes + 1
    /\ UNCHANGED <<stream, facingMode, srcObject, promptDisplay, requests, ended>>
    /\ UNCHANGED <<locationVars, clockVars, geolocation, now, captures, objectURLs>>

\* subscription w delivers a position
Fix(w, coords) ==
    /\ Events < MaxEvents
    /\ w \in watches
    /\ updatePosition([coords |-> coords])
    /\ delivered' = delivered + 1
    /\ lastCallback' = <<[watch |-> w, kind |-> "fix", coords |-> <<coords>>]>>
    /\ UNCHANGED <<watchId, watches, erred>>
    /\ UNCHANGED <<cameraVars, clockVars, geolocation, now, captures, objectURLs>>

\* subscription w delivers an error
LocationError(w, code) ==
    /\ Events < MaxEvents
    /\ w \in watches
    /\ handleLocationError(code)
    /\ delivered' = delivered + 1
    /\ lastCallback' = <<[watch |-> w, kind |-> "error", coords |-> Null]>>
    /\ erred' = erred \cup {w}
    /\ UNCHANGED <<cameraVars, clockVars, geolocation, now, captures, objectURLs>>

\* a second passes
AdvanceTime ==
    /\ Events < MaxEvents
    /\ now' = now + 1
    /\ UNCHANGED <<cameraVars, locationVars, clockVars, geolocation, captures, objectURLs>>

\* an interval timer fires
Tick ==
    /\ timers > 0
    /\ updateClock
    /\ UNCHANGED timers
    /\ UNCHANGED <<cameraVars, locationVars, geolocation, now, captures, objectURLs>>

\* what capturePhoto puts on the canvas and hands to toBlob: the video frame,
\* then the overlay of one of the two layouts; display is what the four fields
\* show when it is called
Raster ==
    LET width == videoSize[1]
        height == videoSize[2]
    IN [width |-> width, height |-> height,
        display |-> <<coordinates, altitude, accuracy, datetime>>,
        text |-> OverlayText,
        layout |-> IF isLandscape(width, height) THEN "landscape" ELSE "portrait",
        ops |-> <<[op |-> "drawImage", x |-> 0, y |-> 0, w |-> Px(width), h |-> Px(height)]>>
                \o (IF isLandscape(width, height)
                    THEN LandscapeOps(width, height, OverlayText)
                    ELSE PortraitOps(width, height, OverlayText)),
        mime |-> "image/jpeg", quality |-> Num(95, 2),
        state |-> "encoding", name |-> ""]

\* click on captureBtn: capturePhoto() up to and including the toBlob call
capturePhotoUpdatesClock ==
    /\ Events < MaxEvents
    /\ captures' = Append(captures, Raster)
    /\ updateClock
    /\ UNCHANGED <<cameraVars, locationVars, timers, geolocation, now, objectURLs>>
capturePhoto ==
    /\ Events < MaxEvents
    /\ captures' = Append(captures, Raster)
    /\ UNCHANGED <<cameraVars, locationVars, clockVars, geolocation, now, objectURLs>>

\* the encoder is done with capture k: the toBlob callback runs; with a null
\* blob URL.createObjectURL throws and nothing is saved
ToBlobCallback(k) ==
    /\ captures[k].state = "encoding"
    /\ IF ToBlob(captures[k].width, captures[k].height) = Null
       THEN /\ captures' = [captures EXCEPT ![k].state = "failed"]
            /\ UNCHANGED objectURLs
       ELSE /\ captures' = [captures EXCEPT ![k].state = "saved",
                                            ![k].name = Download(k).name]
            /\ objectURLs' = Download(k).urls
    /\ UNCHANGED <<cameraVars, locationVars, clockVars, geolocation, now>>

Next ==
    \/ toggleCamera
    \/ Retry
    \/ \E i \in DOMAIN requests : Fulfilled(i)
    \/ \E i \in DOMAIN requests, error \in CaptureErrors : Rejected(i, error)
    \/ \E size \in FrameSizes : VideoResize(size)
    \/ \E w \in watches, coords \in Fixes : Fix(w, coords)
    \/ \E w \in watches, code \in LocationErrorCodes : LocationError(w, code)
    \/ AdvanceTime
    \/ Tick
    \/ capturePhoto
    \/ \E k \in DOMAIN captures : ToBlobCallback(k)

Spec == Init /\ [][Next]_vars

\* ------------------------------------------------------------------ properties

\* streams obtained from getUserMedia whose tracks have not been stopped
LiveStreams ==
    {i \in DOMAIN requests : requests[i].state = "fulfilled" /\ i \notin ended}

FulfilledRequests == {i \in DOMAIN requests : requests[i].state = "fulfilled"}

PendingRequests == {i \in DOMAIN requests : requests[i].state = "pending"}

\* C1: at any time at most one stream obtained from getUserMedia has
\* un-stopped tracks, whatever the interleaving of init, retry and toggleCamera
\* with pending requests.
C1_AtMostOneLiveStream == Cardinality(LiveStreams) <= 1

\* C2: a startCamera call made while a stream is held stops the tracks of the
\* held stream in the same step in which it issues the new getUserMedia
\* request: no step lies between the stop and the request.
C2_StopBeforeRequest ==
    [][(Len(requests') > Len(requests) /\ stream # Null) => stream[1] \in ended']_vars

\* a stream is held, its tracks are stopped, and a request issued after it was
\* obtained is pending
C2_Witness ==
    /\ stream # Null
    /\ stream[1] \in ended
    /\ \E i \in PendingRequests : i > stream[1]

\* C3: when getUserMedia rejects, startCamera makes the prompt visible and
\* throws the same error to its caller; when the caller is init, init catches
\* the error and the prompt is visible when init is done.
C3_FailurePropagates ==
    [][\A i \in DOMAIN requests :
          (requests[i].state = "pending" /\ requests'[i].state = "rejected")
          => /\ requests'[i].cause \in CaptureErrors
             /\ requests'[i].thrown = requests'[i].cause
             /\ promptDisplay' = "flex"
             /\ requests'[i].handled = (requests[i].caller = "init")]_vars

\* a start made by init and a start made by toggleCamera have both failed
C3_Witness ==
    /\ \E i \in RejectedRequests : requests[i].caller = "init" /\ requests[i].handled
    /\ \E i \in RejectedRequests :
          requests[i].caller = "toggleCamera" /\ ~requests[i].handled
    /\ promptDisplay = "flex"

\* the start made at load has failed with permission-denied and no start has
\* succeeded since
InitialStartDenied ==
    /\ requests[1].state = "rejected"
    /\ requests[1].cause = "permission-denied"
    /\ FulfilledRequests = {}

\* C4: when the initial start fails with permission-denied, the prompt is
\* visible, no stream is attached to the preview and, as long as no later
\* start has succeeded, no capture has saved an image.
C4_DeniedStartShowsPrompt ==
    InitialStartDenied =>
        /\ promptDisplay = "flex"
        /\ srcObject = Null
        /\ \A k \in DOMAIN captures : captures[k].state # "saved"

\* the initial start was denied, and a capture made since has run its encoder
\* callback
C4_Witness ==
    /\ InitialStartDenied
    /\ \E k \in DOMAIN captures : captures[k].state = "failed"

\* C5: capturePhoto called while the frame has zero width or height returns
\* before it draws or encodes anything: no raster is composed and toBlob is not
\* called for such a frame (every element of captures is a composed raster
\* handed to toBlob).
C5_ZeroFrameGuarded ==
    \A k \in DOMAIN captures : captures[k].width > 0 /\ captures[k].height > 0

\* C6: the text capturePhoto draws is the four display values as they stand
\* when it is called; the call changes none of them and reads no clock, and
\* nothing that happens between the call and the encoder callback, nor the
\* callback itself, changes the text of a raster already drawn.
C6_CaptureReadsDisplay ==
    [][\A k \in DOMAIN captures' :
          IF k \in DOMAIN captures
          THEN captures'[k].text = captures[k].text
          ELSE /\ captures'[k].text = <<coordinates, altitude, accuracy, datetime>>
               /\ UNCHANGED <<coordinates, altitude, accuracy, datetime, now>>]_vars

\* an encoder is still at work on a raster whose text is no longer what the
\* display shows
C6_Witness ==
    \E k \in DOMAIN captures :
        /\ captures[k].state = "encoding"
        /\ captures[k].width > 0
        /\ captures[k].text # <<coordinates, altitude, accuracy, datetime>>

\* init has come to its call of startLocationTracking
LocationTrackingStarted ==
    \E i \in FulfilledRequests : requests[i].caller = "init"

\* C7: without the location capability, startLocationTracking sets the
\* coordinate display to "Geolocation not supported", subscribes to nothing
\* and leaves watchId null.
C7_NoGeolocation ==
    ~geolocation =>
        /\ watches = {}
        /\ watchId = Null
        /\ delivered = 0
        /\ LocationTrackingStarted => coordinates = "Geolocation not supported"

C7_Witness == ~geolocation /\ LocationTrackingStarted

\* the coordinate text of a position: latitude and longitude to 6 decimals
CoordinatesOf(coords) ==
    toFixed(coords.latitude, 6) \o ", " \o toFixed(coords.longitude, 6)

\* C8: a location error sets the coordinate display to "Location unavailable"
\* and neither cancels nor adds a subscription; a fix delivered afterwards by a
\* subscription that erred puts that fix's coordinates in place of it.
C8_ErrorThenRecovery ==
    [][delivered' > delivered =>
          LET cb == lastCallback'[1]
          IN /\ cb.watch \in watches'
             /\ watches' = watches
             /\ watchId' = watchId
             /\ cb.kind = "error" => coordinates' = "Location unavailable"
             /\ (cb.kind = "fix" /\ cb.watch \in erred) =>
                    /\ coordinates' = CoordinatesOf(cb.coords[1])
                    /\ coordinates' # "Location unavailable"]_vars

\* a subscription that delivered an error has delivered a fix after it
C8_Witness ==
    /\ lastCallback # Null
    /\ lastCallback[1].kind = "fix"
    /\ lastCallback[1].watch \in erred
    /\ coordinates = CoordinatesOf(lastCallback[1].coords[1])

\* the position of the last callback, when that was a fix
LastFix == lastCallback[1].coords[1]

AfterFix == lastCallback # Null /\ lastCallback[1].kind = "fix"

\* C9: after a fix the altitude display is "N/A" exactly when the fix has no
\* altitude and the accuracy display is "N/A" exactly when it has no accuracy;
\* whichever of the two is null, the coordinates and the other field show
\* this fix.
C9_NullFieldsIndependent ==
    AfterFix =>
        /\ altitude = "N/A" <=> LastFix.altitude = Null
        /\ accuracy = "N/A" <=> LastFix.accuracy = Null
        /\ coordinates = CoordinatesOf(LastFix)
        /\ LastFix.altitude # Null => altitude = toFixed(LastFix.altitude[1], 1) \o " m"
        /\ LastFix.accuracy # Null =>
               \E sign \in {"{U+00B1}", "{U+00C2}{U+00B1}"} :
                   accuracy = sign \o toFixed(LastFix.accuracy[1], 1) \o " m"

\* each of the four combinations of null fields has its witness in Fixes; this
\* one is the fix with an altitude and no accuracy
C9_Witness ==
    /\ AfterFix
    /\ LastFix.altitude # Null
    /\ LastFix.accuracy = Null
    /\ altitude = "-5.0 m"
    /\ accuracy = "N/A"

\* C10: after a fix with no null field the coordinate display is the latitude
\* and longitude to 6 decimals joined by ", ", the altitude display is the
\* altitude to 1 decimal and " m", and the accuracy display is "±", the
\* accuracy to 1 decimal and " m"; (37.422999, -122.084057, 123.456, 5.2) shows
\* "37.422999, -122.084057", "123.5 m" and "±5.2 m".
C10_FixFormatting ==
    (AfterFix /\ LastFix.altitude # Null /\ LastFix.accuracy # Null) =>
        /\ coordinates = CoordinatesOf(LastFix)
        /\ altitude = toFixed(LastFix.altitude[1], 1) \o " m"
        /\ accuracy = "{U+00B1}" \o toFixed(LastFix.accuracy[1], 1) \o " m"
        /\ (LastFix.latitude = Num(374229990, 7) /\ LastFix.longitude = Num(-1220840570, 7))
               => coordinates = "37.422999, -122.084057"
        /\ LastFix.altitude[1] = Num(123456, 3) => altitude = "123.5 m"
        /\ LastFix.accuracy[1] = Num(5200, 3) => accuracy = "{U+00B1}5.2 m"

\* ------------------------------------------------------------------ layout properties

\* the overlay operations of a raster, after the frame blit
Overlay(c) == Tail(c.ops)

TextOps(c) == {i \in DOMAIN c.ops : c.ops[i].op = "fillText"}

\* the landscape panel was drawn: a stroked rectangle
PanelDrawn(c) == \E i \in DOMAIN c.ops : c.ops[i].op = "strokeRect"

\* the portrait band was drawn: a filled rectangle from the origin across the
\* whole width
BandDrawn(c) ==
    \E i \in DOMAIN c.ops :
        /\ c.ops[i].op = "fillRect"
        /\ c.ops[i].x = 0 /\ c.ops[i].y = 0 /\ c.ops[i].w = Px(c.width)

\* C11: capturePhoto draws the landscape layout exactly when the raster is
\* wider than it is high and the portrait layout otherwise, a square raster
\* included; it never draws both or neither (1920x1080 landscape, 1080x1920 and
\* 1000x1000 portrait).
C11_OrientationBranch ==
    \A k \in DOMAIN captures :
        LET c == captures[k]
        IN /\ c.width > c.height =>
                  c.layout = "landscape" /\ PanelDrawn(c) /\ ~BandDrawn(c)
           /\ c.width <= c.height =>
                  c.layout = "portrait" /\ BandDrawn(c) /\ ~PanelDrawn(c)
           /\ (c.width = 1920 /\ c.height = 1080) => c.layout = "landscape"
           /\ (c.width = 1080 /\ c.height = 1920) => c.layout = "portrait"
           /\ (c.width = 1000 /\ c.height = 1000) => c.layout = "portrait"

\* a square raster was captured, in the portrait layout
C11_Witness ==
    \E k \in DOMAIN captures :
        /\ captures[k].width = 1000 /\ captures[k].height = 1000
        /\ captures[k].layout = "portrait"

\* the panel rectangle of a landscape raster: its first overlay operation
Panel(c) == Overlay(c)[1]

\* C12: in the landscape layout the panel is floor(0.30 * W) pixels wide for a
\* raster W pixels wide: the whole number n with 10n <= 3W < 10(n + 1); 576
\* for W = 1920.
C12_PanelWidth ==
    \A k \in DOMAIN captures :
        LET c == captures[k]
        IN c.layout = "landscape" =>
               /\ \E n \in 0..c.width :
                      /\ Panel(c).w = Px(n)
                      /\ 10 * n <= 3 * c.width
                      /\ 3 * c.width < 10 * (n + 1)
               /\ c.width = 1920 => Panel(c).w = Px(576)

\* landscape rasters were captured at a width that is a multiple of ten
\* (1920) and at one that is not (2336)
C12_Witness ==
    \E k \in DOMAIN captures :
        /\ captures[k].layout = "landscape"
        /\ captures[k].width = 1920
        /\ Panel(captures[k]).w = Px(576)

\* C13: two captures taken at the same frame size while the four fields show
\* the same values issue the same draw operations: same layout, same geometry,
\* same text; only the file name, taken from the clock, may differ.
C13_CaptureIdempotent ==
    \A j, k \in DOMAIN captures :
        (/\ captures[j].width = captures[k].width
         /\ captures[j].height = captures[k].height
         /\ captures[j].display = captures[k].display)
        => /\ captures[j].layout = captures[k].layout
           /\ captures[j].ops = captures[k].ops
           /\ captures[j].text = captures[k].text
           /\ captures[j].mime = captures[k].mime
           /\ captures[j].quality = captures[k].quality

\* two captures of a live frame with nothing changed between them
C13_Witness ==
    /\ Len(captures) = 2
    /\ captures[1].width > 0
    /\ captures[1].width = captures[2].width
    /\ captures[1].height = captures[2].height
    /\ captures[1].display = captures[2].display
    /\ captures[1].ops = captures[2].ops

\* C14: every capture is encoded as image/jpeg at quality 0.95; a save happens
\* only in the encoder's callback, under the name solvepao_<epoch millis>.jpg;
\* the object URL made for it is revoked in the same callback, so no object URL
\* is ever left unrevoked.
C14_SaveAndRevoke ==
    [][/\ objectURLs' = {}
       /\ \A k \in DOMAIN captures' :
             /\ captures'[k].mime = "image/jpeg"
             /\ captures'[k].quality = Num(95, 2)
             /\ (captures'[k].state = "saved"
                 /\ (k \notin DOMAIN captures \/ captures[k].state # "saved"))
                => /\ k \in DOMAIN captures
                   /\ captures[k].state = "encoding"
                   /\ captures[k].width > 0 /\ captures[k].height > 0
                   /\ captures'[k].name = "solvepao_" \o EpochMillis(now) \o ".jpg"]_vars

\* a capture made at load time + 0 s has been saved
C14_Witness ==
    \E k \in DOMAIN captures :
        /\ captures[k].state = "saved"
        /\ captures[k].name = "solvepao_1704139199000.jpg"
        /\ objectURLs = {}

\* a step in which init resumes after a granted request
InitResumes ==
    \E i \in DOMAIN requests :
        /\ requests[i].caller = "init"
        /\ requests[i].state = "pending"
        /\ requests'[i].state = "fulfilled"

\* C15: the coordinate, altitude and accuracy fields change only in a step of
\* the location tracker (a geolocation callback, or startLocationTracking in
\* init), the datetime field only in a step of the clock (a timer callback, or
\* startClock in init); a capture, its encoder callback, a toggle, a retry and
\* the settlement of a toggle's request leave all four as they are.
C15_SingleWriter ==
    [][/\ <<coordinates, altitude, accuracy>>' # <<coordinates, altitude, accuracy>>
          => \/ delivered' = delivered + 1
             \/ InitResumes /\ ~geolocation /\ UNCHANGED <<altitude, accuracy>>
       /\ datetime' # datetime
          => /\ datetime' = FormatClock(now)
             /\ (timers > 0 /\ UNCHANGED <<captures, requests>>) \/ InitResumes
       /\ (captures' # captures \/ Len(requests') > Len(requests)
           \/ \E i \in DOMAIN requests :
                 requests[i].caller = "toggleCamera" /\ requests'[i] # requests[i])
          => UNCHANGED <<coordinates, altitude, accuracy, datetime>>]_vars

\* the tracker and the clock have written their fields, and a capture and a
\* toggle have run since the page was loaded
C15_Witness ==
    /\ coordinates # MarkupText
    /\ datetime # MarkupText
    /\ captures # <<>>
    /\ \E i \in DOMAIN requests : requests[i].caller = "toggleCamera"

\* C16: in the portrait layout, with fs = floor(width / 25), the band is filled
\* from (0, 0) across the raster's width, 8 fs high; the header is at baseline
\* 1.5 fs; Coordinates, Altitude, Accuracy and Date & Time follow in this order
\* at x = 0.8 fs, left-aligned, at baselines 3.3, 4.5, 5.7 and 6.9 fs: all
\* inside the band.
C16_PortraitLayout ==
    \A k \in DOMAIN captures :
        LET c == captures[k]
            fs == c.width \div 25
            o == Overlay(c)
        IN c.layout = "portrait" =>
               /\ Len(o) = 6
               /\ o[1] = FillRect(0, 0, Px(c.width), 800 * fs)
               /\ o[2].op = "fillText" /\ o[2].y = 150 * fs
               /\ o[3].text = "Coordinates: " \o c.text[1] /\ o[3].y = o[2].y + 180 * fs
               /\ o[4].text = "Altitude: " \o c.text[2] /\ o[4].y = o[3].y + 120 * fs
               /\ o[5].text = "Accuracy: " \o c.text[3] /\ o[5].y = o[4].y + 120 * fs
               /\ o[6].text = "Date & Time: " \o c.text[4] /\ o[6].y = o[5].y + 120 * fs
               /\ \A i \in 2..6 :
                      /\ o[i].op = "fillText"
                      /\ o[i].align = "left"
                      /\ o[i].x = 80 * fs
                      /\ o[i].y >= 0 /\ o[i].y <= o[1].h

\* a portrait raster of a live frame: fs = 43 for a width of 1080
C16_Witness ==
    \E k \in DOMAIN captures :
        /\ captures[k].layout = "portrait"
        /\ captures[k].width = 1080
        /\ Overlay(captures[k])[6].y = 690 * 43

\* C17: in every landscape raster the panel rectangle lies inside the raster
\* and the baselines of the header and of the four rows lie inside the panel.
C17_PanelInsideRaster ==
    \A k \in DOMAIN captures :
        LET c == captures[k]
            p == Panel(c)
        IN c.layout = "landscape" =>
               /\ p.x >= 0 /\ p.y >= 0
               /\ p.x + p.w <= Px(c.width)
               /\ p.y + p.h <= Px(c.height)
               /\ \A i \in TextOps(c) :
                      /\ c.ops[i].x >= p.x /\ c.ops[i].x <= p.x + p.w
                      /\ c.ops[i].y >= p.y /\ c.ops[i].y <= p.y + p.h

\* ------------------------------------------------------------------ lifecycle properties

\* every request made so far was granted
AllGranted == \A i \in DOMAIN requests : requests[i].state = "fulfilled"

\* C18: when every getUserMedia request has settled, the stream held in
\* `stream` is the one attached to the preview and faces the way facingMode
\* says (stated here for the runs in which every request was granted).
C18_FacingMatchesStream ==
    (AllGranted /\ stream # Null) =>
        /\ srcObject = stream
        /\ requests[stream[1]].facing = facingMode

\* every click on retry was made while the prompt was visible
RetriedFromPrompt ==
    \A i \in DOMAIN requests :
        (i > 1 /\ requests[i].caller = "init") => requests[i].prompt = "flex"

\* C19: at most one location subscription and at most one clock timer are
\* active, and watchId names the one active subscription (stated here for the
\* runs in which retry is clicked only while the prompt is visible).
C19_OneWatchOneTimer ==
    RetriedFromPrompt =>
        /\ Cardinality(watches) <= 1
        /\ timers <= 1
        /\ watches # {} => (watchId # Null /\ watches = {watchId[1]})

\* no run of init has got its stream yet
NoInitSucceeded ==
    \A i \in DOMAIN requests :
        requests[i].caller = "init" => requests[i].state # "fulfilled"

\* C20: a location subscription and a clock timer are started only in the step
\* in which init resumes with the stream of its camera start, both in that
\* step; a run of init whose camera start fails starts neither, and until a run
\* of init has succeeded the coordinate and datetime fields keep the markup's
\* text.
C20_InitOrder ==
    [][/\ (watches' # watches \/ watchId' # watchId \/ timers' # timers)
          => \E i \in DOMAIN requests :
                 /\ requests[i].caller = "init"
                 /\ requests[i].state = "pending"
                 /\ requests'[i].state = "fulfilled"
                 /\ stream' = <<i>> /\ srcObject' = <<i>>
                 /\ timers' = timers + 1
                 /\ datetime' = FormatClock(now)
                 /\ geolocation => (watchId' # Null /\ watchId'[1] \in watches' \ watches)
       /\ (\E i \in DOMAIN requests :
               requests[i].state = "pending" /\ requests'[i].state = "rejected")
          => UNCHANGED <<watches, watchId, timers, coordinates, datetime>>
       /\ NoInitSucceeded'
          => /\ watches' = {} /\ timers' = 0 /\ delivered' = 0
             /\ coordinates' = MarkupText /\ datetime' = MarkupText]_vars

\* the camera start of init has failed and nothing else was started
C20_Witness ==
    /\ \E i \in RejectedRequests : requests[i].caller = "init"
    /\ NoInitSucceeded
    /\ timers = 0
    /\ watches = {}

\* a stream whose tracks have not been stopped is attached to the preview
LiveStreamAttached == srcObject # Null /\ srcObject[1] \notin ended

\* C21: when no getUserMedia request is pending, the prompt is visible exactly
\* when no stream with un-stopped tracks is attached to the preview, whatever
\* the order in which the requests of init, retry and toggleCamera settled.
C21_PromptIffNoLiveStream ==
    PendingRequests = {} => (promptDisplay = "flex" <=> ~LiveStreamAttached)

\* ------------------------------------------------------------------ location error frame

\* what updatePosition shows for the altitude and the accuracy of a position
AltitudeOf(coords) ==
    IF coords.altitude # Null THEN toFixed(coords.altitude[1], 1) \o " m" ELSE "N/A"

AccuracyOf(coords) ==
    IF coords.accuracy # Null
    THEN PlusMinus \o toFixed(coords.accuracy[1], 1) \o " m"
    ELSE "N/A"

AfterError == lastCallback # Null /\ lastCallback[1].kind = "error"

\* C22: a location error changes the coordinate display only: the altitude,
\* accuracy and datetime displays keep their values, so that an error that
\* follows a fix leaves that fix's altitude and accuracy on display next to
\* "Location unavailable", and a capture made then draws exactly these texts.
C22_ErrorChangesOnlyCoordinates ==
    [][/\ (delivered' > delivered /\ lastCallback'[1].kind = "error")
          => /\ coordinates' = "Location unavailable"
             /\ UNCHANGED <<altitude, accuracy, datetime>>
             /\ AfterFix => /\ altitude' = AltitudeOf(LastFix)
                            /\ accuracy' = AccuracyOf(LastFix)
       /\ (Len(captures') > Len(captures) /\ AfterError)
          => captures'[Len(captures')].text =
                 <<"Location unavailable", altitude, accuracy, datetime>>]_vars

\* a fix with altitude 123.456 and accuracy 5.2 was followed by an error, and a
\* capture made after the error carries the altitude and accuracy of that fix
C22_Witness ==
    /\ AfterError
    /\ coordinates = "Location unavailable"
    /\ altitude = "123.5 m"
    /\ \E k \in DOMAIN captures :
          /\ captures[k].text[1] = "Location unavailable"
          /\ captures[k].text[2] = "123.5 m"
          /\ captures[k].text[3] = PlusMinus \o "5.2 m"

====
